---- MODULE Spec2Model ----
(***************************************************************************)
(* Model of research/blueprint_algo/blueprint_short_deck_poker.py: the     *)
(* Agent tables, calculate_strategy, update_strategy, cfr, cfrp and the    *)
(* train loop.  The recursive traversals are run on an explicit call       *)
(* stack.  Python floats are modelled by exact rationals <<num, den>>.     *)
(* The game engine (ShortDeckPokerState) is not part of the source file;   *)
(* it is modelled as a small fixed game tree that has the interface the    *)
(* specification lists for GameState.                                      *)
(***************************************************************************)
EXTENDS Integers, Sequences, FiniteSets, TLC

VARIABLES cfg, strategy, regret, sigma, t, i, pc, stack, ret, dumps, log, ev

vars == <<cfg, strategy, regret, sigma, t, i, pc, stack, ret, dumps, log, ev>>

----------------------------------------------------------------------------
(* Configuration: the options of train().  cfg is the set of options a    *)
(* run was started with; it never changes.                                 *)

MaxIterations == 2

Configs ==
    {[n_iterations |-> MaxIterations, n_players |-> 2, strategy_interval |-> 2,
      update_threshold |-> 0, prune_threshold |-> 1, lcfr_threshold |-> 3,
      discount_interval |-> 2, dump_iteration |-> 2, c |-> 0 - 1],
     [n_iterations |-> MaxIterations, n_players |-> 2, strategy_interval |-> 1,
      update_threshold |-> 1, prune_threshold |-> 2, lcfr_threshold |-> 2,
      discount_interval |-> 1, dump_iteration |-> 1, c |-> 0 - 1]}

n_iterations == cfg.n_iterations
n_players == cfg.n_players
strategy_interval == cfg.strategy_interval
update_threshold == cfg.update_threshold
prune_threshold == cfg.prune_threshold
lcfr_threshold == cfg.lcfr_threshold
discount_interval == cfg.discount_interval
dump_iteration == cfg.dump_iteration
c == cfg.c

----------------------------------------------------------------------------
(* Exact rational arithmetic standing for Python float arithmetic.         *)

Abs(x) == IF x < 0 THEN 0 - x ELSE x

RECURSIVE GCD(_, _)
GCD(a, b) == IF b = 0 THEN a ELSE GCD(b, a % b)

RNorm(n, d) ==
    LET s == IF d < 0 THEN 0 - 1 ELSE 1
        g == GCD(Abs(n), Abs(d))
    IN  <<(s * n) \div g, (s * d) \div g>>

RInt(n) == <<n, 1>>
RZero == RInt(0)
ROne == RInt(1)
RAdd(x, y) == RNorm(x[1] * y[2] + y[1] * x[2], x[2] * y[2])
RSub(x, y) == RNorm(x[1] * y[2] - y[1] * x[2], x[2] * y[2])
RMul(x, y) == RNorm(x[1] * y[1], x[2] * y[2])
RDiv(x, y) == RNorm(x[1] * y[2], x[2] * y[1])
RLt(x, y) == x[1] * y[2] < y[1] * x[2]
RGt(x, y) == RLt(y, x)
RLe(x, y) == ~RLt(y, x)
RMax0(x) == IF RLt(x, RZero) THEN RZero ELSE x

RECURSIVE RSum(_, _)
(* sum of f[x] over x in S *)
RSum(f, S) ==
    IF S = {} THEN RZero
    ELSE LET x == CHOOSE y \in S : TRUE
         IN  RAdd(f[x], RSum(f, S \ {x}))

----------------------------------------------------------------------------
(* Python dict helpers.                                                    *)

EmptyMap == [x \in {} |-> 0]
Put(f, k, v) == [x \in (DOMAIN f) \cup {k} |-> IF x = k THEN v ELSE f[x]]
Remove(f, k) == [x \in (DOMAIN f) \ {k} |-> f[x]]
Range(s) == {s[x] : x \in DOMAIN s}

----------------------------------------------------------------------------
(* The game engine: a fixed game tree with the GameState interface.        *)

Actions == {"fold", "call", "raise"}
Root == "r"
Terminals == {"rcff", "rccf", "rccc", "rccr", "rcrf", "rcrc", "rrf", "rrc"}
Decisions == {"r", "rc", "rr", "rcf", "rcc", "rcr"}
Nodes == Decisions \cup Terminals

is_terminal(n) == n \in Terminals

player_i(n) ==
    CASE n = "r" -> 0
      [] n = "rc" -> 1
      [] n = "rr" -> 1
      [] n = "rcf" -> 0
      [] n = "rcc" -> 0
      [] n = "rcr" -> 0
      [] OTHER -> 0

info_set(n) ==
    CASE n = "r" -> "A"
      [] n = "rc" -> "B"
      [] n = "rr" -> "C"
      [] n = "rcf" -> "E"
      [] n = "rcc" -> "D"
      [] n = "rcr" -> "D"
      [] OTHER -> "T"

legal_actions(n) ==
    CASE n = "r" -> <<"call", "raise">>
      [] n = "rc" -> <<"fold", "call", "raise">>
      [] n = "rr" -> <<"fold", "call">>
      [] n = "rcf" -> <<"fold">>
      [] n = "rcc" -> <<"fold", "call", "raise">>
      [] n = "rcr" -> <<"fold", "call">>
      [] OTHER -> <<>>

betting_round(n) == IF n \in {"rcc", "rccf", "rccc", "rccr"} THEN 1 ELSE 0

(* players[p].is_active: player 1 has folded at rcf and below *)
is_active(n, p) == ~(p = 1 /\ n \in {"rcf", "rcff"})

(* payout[p], one value per player *)
payout(n) ==
    CASE n = "rcff" -> <<RInt(0 - 2), RInt(1)>>
      [] n = "rccf" -> <<RInt(0 - 1), RInt(1)>>
      [] n = "rccc" -> <<RInt(0 - 2), RInt(2)>>
      [] n = "rccr" -> <<RInt(3), RInt(0 - 3)>>
      [] n = "rcrf" -> <<RInt(0 - 1), RInt(1)>>
      [] n = "rcrc" -> <<RInt(3), RInt(0 - 3)>>
      [] n = "rrf" -> <<RInt(2), RInt(0 - 3)>>
      [] n = "rrc" -> <<RInt(0 - 2), RInt(0 - 3)>>
      [] OTHER -> <<RZero, RZero>>

ActionLetter(a) ==
    CASE a = "fold" -> "f"
      [] a = "call" -> "c"
      [] a = "raise" -> "r"

(* apply_action: the child state; an action that is not legal is refused *)
apply_action(n, a) ==
    IF a \in Range(legal_actions(n)) THEN n \o ActionLetter(a) ELSE "ILLEGAL"

----------------------------------------------------------------------------
(* Agent tables.  regret and strategy: infoset -> action -> number, both   *)
(* defaultdicts with default 0.  sigma: iteration -> infoset -> entry,     *)
(* where an entry records whether the inner dict is a plain dict (written  *)
(* by the except branch) or a defaultdict with default 1/3.                *)

SigmaDefault == <<1, 3>>

LegalSet(n) == Range(legal_actions(n))

(* d[I][a] of a defaultdict of defaultdicts with default 0, as a value *)
Get(d, I, a) == IF I \in DOMAIN d /\ a \in DOMAIN d[I] THEN d[I][a] ELSE RZero

(* the keys that reading d[I][a] for every a in S inserts *)
Touch(d, I, S) ==
    LET old == IF I \in DOMAIN d THEN d[I] ELSE EmptyMap
    IN  Put(d, I, [a \in (DOMAIN old) \cup S |-> IF a \in DOMAIN old THEN old[a] ELSE RZero])

(* sigma[tt][I] when read: a missing entry is an empty defaultdict *)
SigmaEntry(sg, tt, I) ==
    IF tt \in DOMAIN sg /\ I \in DOMAIN sg[tt]
    THEN sg[tt][I]
    ELSE [plain |-> FALSE, m |-> EmptyMap]

SigmaPut(sg, tt, I, e) ==
    Put(sg, tt, Put(IF tt \in DOMAIN sg THEN sg[tt] ELSE EmptyMap, I, e))

IsDist(m, L) ==
    /\ DOMAIN m = L
    /\ \A a \in L : RLe(RZero, m[a])
    /\ RSum(m, L) = ROne

Uniform(L) == [a \in L |-> RNorm(1, Cardinality(L))]

(* calculate_strategy(regret, sigma, I, state, t): regret matching into    *)
(* sigma[t + 1][I]; reading regret[I][a] inserts the missing keys.         *)
calculate_strategy(reg, sg, I, n, tt) ==
    LET L == LegalSet(n)
        reg1 == Touch(reg, I, {})
        pos == [a \in DOMAIN reg1[I] |-> RMax0(reg1[I][a])]
        rsum == RSum(pos, DOMAIN pos)
        reg2 == IF RGt(rsum, RZero) THEN Touch(reg1, I, L) ELSE reg1
        old == SigmaEntry(sg, tt + 1, I)
        new == [a \in (DOMAIN old.m) \cup L |->
                  IF a \in L
                  THEN IF RGt(rsum, RZero)
                       THEN RDiv(RMax0(reg2[I][a]), rsum)
                       ELSE RNorm(1, Len(legal_actions(n)))
                  ELSE old.m[a]]
    IN  [regret |-> reg2,
         sigma  |-> IF L = {} THEN sg
                    ELSE SigmaPut(sg, tt + 1, I, [plain |-> old.plain, m |-> new])]

(* np.random.choice(keys, 1, p=values) raises ValueError when there are no *)
(* keys, when a probability is negative or when they do not sum to 1.      *)
ChoiceRaises(m) ==
    \/ DOMAIN m = {}
    \/ \E a \in DOMAIN m : RLt(m[a], RZero)
    \/ RSum(m, DOMAIN m) # ROne

(* The try/except of the sampling step: the set of outcomes                *)
(* [a, sigma, repaired, dist], dist being the distribution drawn from.     *)
SampleOutcomes(sg, n, tt) ==
    LET I == info_set(n)
        L == LegalSet(n)
        e == SigmaEntry(sg, tt, I)
    IN  IF ChoiceRaises(e.m)
        THEN {[a |-> a, repaired |-> TRUE, dist |-> Uniform(L),
               sigma |-> SigmaPut(sg, tt, I, [plain |-> TRUE, m |-> Uniform(L)])] : a \in L}
        ELSE {[a |-> a, repaired |-> FALSE, dist |-> e.m,
               sigma |-> SigmaPut(sg, tt, I, e)] : a \in {x \in DOMAIN e.m : RGt(e.m[x], RZero)}}

(* agent.sigma[t][I][a] read as a weight: a plain dict without the key     *)
(* raises KeyError, a defaultdict inserts 1/3.                             *)
WeightRaises(sg, tt, I, a) ==
    LET e == SigmaEntry(sg, tt, I) IN e.plain /\ a \notin DOMAIN e.m

WeightRead(sg, tt, I, a) ==
    LET e == SigmaEntry(sg, tt, I)
    IN  IF a \in DOMAIN e.m THEN e
        ELSE [plain |-> e.plain, m |-> Put(e.m, a, SigmaDefault)]

----------------------------------------------------------------------------
(* train(): the schedule conditions.                                       *)

RECURSIVE BitAnd(_, _)
BitAnd(x, y) ==
    IF x = 0 \/ y = 0 THEN 0
    ELSE (x % 2) * (y % 2) + 2 * BitAnd(x \div 2, y \div 2)

UpdateCond_no_threshold(tt) == tt % strategy_interval = 0

UpdateCond(tt) == tt > update_threshold /\ tt % strategy_interval = 0

(* t < lcfr_threshold & t % discount_interval == 0  parses as the chained  *)
(* comparison  t < (lcfr_threshold & (t % discount_interval)) == 0         *)
DiscountCond(tt) ==
    LET x == BitAnd(lcfr_threshold, tt % discount_interval)
    IN  tt < x /\ x = 0

DumpCond_no_threshold(tt) == tt % dump_iteration = 0

DumpCond(tt) == tt > update_threshold /\ tt % dump_iteration = 0

DiscountFactor(tt) ==
    LET q == RNorm(tt, discount_interval) IN RDiv(q, RAdd(q, ROne))

(* the discount loops: over regret's keys, scaling regret and strategy *)
Discount(reg, str, tt) ==
    LET d == DiscountFactor(tt)
    IN  [regret   |-> [I \in DOMAIN reg |-> [a \in DOMAIN reg[I] |-> RMul(reg[I][a], d)]],
         strategy |-> [I \in (DOMAIN str) \cup (DOMAIN reg) |->
                         IF I \in DOMAIN reg
                         THEN [a \in (DOMAIN reg[I]) \cup
                                     (IF I \in DOMAIN str THEN DOMAIN str[I] ELSE {}) |->
                                 IF a \in DOMAIN reg[I]
                                 THEN RMul(Get(str, I, a), d)
                                 ELSE str[I][a]]
                         ELSE str[I]]]

DelSigma_kept(sg, tt) == sg

(* del agent.sigma[t] *)
DelSigma(sg, tt) == Remove(sg, tt)

(* to_dict: deepcopy, then a JSON round trip; the integer iteration keys   *)
(* of sigma come back as strings, every dict as a plain dict.              *)
to_dict(str, reg, sg) ==
    [strategy |-> str,
     regret   |-> reg,
     sigma    |-> [s \in {ToString(k) : k \in DOMAIN sg} |->
                     LET k == CHOOSE j \in DOMAIN sg : ToString(j) = s
                     IN  [I \in DOMAIN sg[k] |-> sg[k][I].m]]]

----------------------------------------------------------------------------
(* The call stack of a traversal.  A frame is one activation of            *)
(* update_strategy ("us"), cfr or cfrp at a node.  ph is the position in   *)
(* the body: "enter", "loop" (at the head of the for loop, k the index of  *)
(* the next action), "wait" (a child called from the loop has returned),   *)
(* "tail" (the child called in return position has returned).  w records   *)
(* the sigma[t][I][a] weights read, reg0 the regrets of the legal actions  *)
(* at the call.                                                            *)

Frame(fn, n) ==
    [fn |-> fn, node |-> n, ph |-> "enter", k |-> 1, vo |-> RZero,
     voa |-> EmptyMap, w |-> EmptyMap, explored |-> EmptyMap,
     reg0 |-> EmptyMap, a |-> "none"]

Top == stack[Len(stack)]
Front(s) == SubSeq(s, 1, Len(s) - 1)
SetTop(f) == [stack EXCEPT ![Len(stack)] = f]

NoEv ==
    [kind |-> "none", fn |-> "none", node |-> "none", a |-> "none",
     repaired |-> FALSE, stored |-> EmptyMap, dist |-> EmptyMap,
     w |-> EmptyMap, voa |-> EmptyMap, vo |-> RZero, val |-> RZero,
     reg0 |-> EmptyMap, t |-> 0, i |-> 0]

Ev(kind, f) == [NoEv EXCEPT !.kind = kind, !.fn = f.fn, !.node = f.node, !.t = t, !.i = i]

Init ==
    /\ cfg \in Configs
    /\ strategy = EmptyMap
    /\ regret = EmptyMap
    /\ sigma = EmptyMap
    /\ t = 0
    /\ i = 0
    /\ pc = "loop"
    /\ stack = <<>>
    /\ ret = RZero
    /\ dumps = <<>>
    /\ log = <<>>
    /\ ev = NoEv

(* return val from the top frame; the outermost return goes back to train *)
Pop(val) ==
    /\ stack' = Front(stack)
    /\ ret' = val
    /\ IF Len(stack) = 1
       THEN IF Top.fn = "us"
            THEN pc' = "trav" /\ i' = i
            ELSE pc' = "player" /\ i' = i + 1
       ELSE pc' = pc /\ i' = i

(* an exception that nothing catches ends the run *)
Abort(f) ==
    /\ pc' = "error"
    /\ ev' = Ev("error", f)
    /\ UNCHANGED <<stack, ret, i>>

----------------------------------------------------------------------------
(* train(): the loop over t and i.                                         *)

(* for t in trange(1, n_iterations + 1): sigma[t + 1] = deepcopy(sigma[t]) *)
StartIteration ==
    /\ pc = "loop"
    /\ t < n_iterations
    /\ t' = t + 1
    /\ LET cur == IF t + 1 \in DOMAIN sigma THEN sigma[t + 1] ELSE EmptyMap
       IN  sigma' = Put(Put(sigma, t + 1, cur), t + 2, cur)
    /\ i' = 0
    /\ pc' = "player"
    /\ ev' = [NoEv EXCEPT !.kind = "start", !.t = t + 1]
    /\ UNCHANGED <<strategy, regret, stack, ret, dumps, log>>
    /\ UNCHANGED cfg

(* new_game, then update_strategy(agent, state, i, t) when its gate holds *)
CallUpdateStrategy ==
    /\ pc = "player"
    /\ i < n_players
    /\ UpdateCond(t)
    /\ stack' = <<Frame("us", Root)>>
    /\ pc' = "run"
    /\ log' = Append(log, <<"us", t, i>>)
    /\ ev' = [NoEv EXCEPT !.kind = "call", !.fn = "us", !.node = Root, !.t = t, !.i = i]
    /\ UNCHANGED <<strategy, regret, sigma, t, i, ret, dumps>>
    /\ UNCHANGED cfg

(* the regret traversal of (t, i): cfr, or after the prune threshold cfrp  *)
(* unless random.uniform(0, 1) < 0.05                                      *)
CallTraversal ==
    /\ \/ pc = "player" /\ i < n_players /\ ~UpdateCond(t)
       \/ pc = "trav"
    /\ \E fn \in IF t > prune_threshold THEN {"cfr", "cfrp"} ELSE {"cfr"} :
          /\ stack' = <<Frame(fn, Root)>>
          /\ log' = Append(log, <<fn, t, i>>)
          /\ ev' = [NoEv EXCEPT !.kind = "call", !.fn = fn, !.node = Root, !.t = t, !.i = i]
    /\ pc' = "run"
    /\ UNCHANGED <<strategy, regret, sigma, t, i, ret, dumps>>
    /\ UNCHANGED cfg

(* after the players of iteration t: discount, dump, del sigma[t] *)
EndIteration ==
    /\ pc = "player"
    /\ i = n_players
    /\ LET disc == IF DiscountCond(t)
                   THEN Discount(regret, strategy, t)
                   ELSE [regret |-> regret, strategy |-> strategy]
       IN  /\ regret' = disc.regret
           /\ strategy' = disc.strategy
           /\ dumps' = IF DumpCond(t)
                       THEN Append(dumps, [name |-> <<"strategy", t>>,
                                           data |-> to_dict(disc.strategy, disc.regret, sigma)])
                       ELSE dumps
           /\ log' = log \o (IF DiscountCond(t) THEN <<<<"discount", t, 0>>>> ELSE <<>>)
                         \o (IF DumpCond(t) THEN <<<<"dump", t, 0>>>> ELSE <<>>)
    /\ sigma' = DelSigma(sigma, t)
    /\ pc' = "loop"
    /\ ev' = [NoEv EXCEPT !.kind = "end", !.t = t]
    /\ UNCHANGED <<t, i, stack, ret>>
    /\ UNCHANGED cfg

(* after the loop: the final dump *)
Finish ==
    /\ pc = "loop"
    /\ t = n_iterations
    /\ dumps' = Append(dumps, [name |-> <<"strategy">>,
                               data |-> to_dict(strategy, regret, sigma)])
    /\ log' = Append(log, <<"final", t, 0>>)
    /\ pc' = "done"
    /\ ev' = [NoEv EXCEPT !.kind = "final", !.t = t]
    /\ UNCHANGED <<strategy, regret, sigma, t, i, stack, ret>>
    /\ UNCHANGED cfg

----------------------------------------------------------------------------
(* update_strategy(agent, state, i, t)                                     *)

UsStops_any_round(n) == is_terminal(n) \/ ~is_active(n, i)

UsStops(n) == is_terminal(n) \/ ~is_active(n, i) \/ betting_round(n) > 0

(* if state.is_terminal or player_not_in_hand or state.betting_round > 0 *)
UsReturn ==
    /\ pc = "run"
    /\ Top.fn = "us" /\ Top.ph = "enter"
    /\ UsStops(Top.node)
    /\ Pop(ret)
    /\ ev' = Ev("return", Top)
    /\ UNCHANGED <<strategy, regret, sigma, t, dumps, log>>
    /\ UNCHANGED cfg

(* elif ph == i: calculate_strategy, sample a, strategy[I][a] += 1, recurse *)
UsSample ==
    /\ pc = "run"
    /\ Top.fn = "us" /\ Top.ph = "enter"
    /\ ~UsStops(Top.node)
    /\ player_i(Top.node) = i
    /\ LET n == Top.node
           I == info_set(n)
           cs == calculate_strategy(regret, sigma, I, n, t)
       IN  \E o \in SampleOutcomes(cs.sigma, n, t) :
              /\ regret' = cs.regret
              /\ sigma' = o.sigma
              /\ strategy' = LET s1 == Touch(strategy, I, {o.a})
                             IN  [s1 EXCEPT ![I][o.a] = RAdd(@, ROne)]
              /\ ev' = [Ev("sample", Top) EXCEPT !.a = o.a, !.repaired = o.repaired,
                           !.dist = o.dist, !.stored = SigmaEntry(cs.sigma, t, I).m]
              /\ IF apply_action(n, o.a) = "ILLEGAL"
                 THEN pc' = "error" /\ stack' = stack
                 ELSE /\ pc' = pc
                      /\ stack' = Append(SetTop([Top EXCEPT !.ph = "tail", !.a = o.a]),
                                         Frame("us", apply_action(n, o.a)))
    /\ UNCHANGED <<t, i, ret, dumps, log>>
    /\ UNCHANGED cfg

(* else: for a in state.legal_actions: recurse into every child *)
UsBranch ==
    /\ pc = "run"
    /\ Top.fn = "us"
    /\ \/ Top.ph = "enter" /\ ~UsStops(Top.node) /\ player_i(Top.node) # i
       \/ Top.ph = "wait"
    /\ LET n == Top.node
           kk == IF Top.ph = "enter" THEN 1 ELSE Top.k + 1
       IN  IF kk <= Len(legal_actions(n))
           THEN /\ stack' = Append(SetTop([Top EXCEPT !.ph = "wait", !.k = kk,
                                                      !.a = legal_actions(n)[kk]]),
                                   Frame("us", apply_action(n, legal_actions(n)[kk])))
                /\ ev' = [Ev("branch", Top) EXCEPT !.a = legal_actions(n)[kk]]
                /\ UNCHANGED <<pc, i, ret>>
           ELSE /\ Pop(ret)
                /\ ev' = Ev("return", Top)
    /\ UNCHANGED <<strategy, regret, sigma, t, dumps, log>>
    /\ UNCHANGED cfg

----------------------------------------------------------------------------
(* cfr(agent, state, i, t) and cfrp(agent, state, i, t, c)                 *)

IsTrav(fn) == fn \in {"cfr", "cfrp"}

(* if state.is_terminal: return state.payout[i] *)
TravTerminal ==
    /\ pc = "run"
    /\ IsTrav(Top.fn) /\ Top.ph = "enter"
    /\ is_terminal(Top.node)
    /\ Pop(payout(Top.node)[i + 1])
    /\ ev' = [Ev("payout", Top) EXCEPT !.val = payout(Top.node)[i + 1]]
    /\ UNCHANGED <<strategy, regret, sigma, t, dumps, log>>
    /\ UNCHANGED cfg

(* elif ph == i: calculate_strategy; vo = 0.0; voa = {}; explored = {} *)
TravEnter ==
    /\ pc = "run"
    /\ IsTrav(Top.fn) /\ Top.ph = "enter"
    /\ ~is_terminal(Top.node)
    /\ player_i(Top.node) = i
    /\ LET n == Top.node
           I == info_set(n)
           cs == calculate_strategy(regret, sigma, I, n, t)
       IN  /\ regret' = cs.regret
           /\ sigma' = cs.sigma
           /\ stack' = SetTop([Top EXCEPT !.ph = "loop", !.k = 1,
                                 !.reg0 = [a \in LegalSet(n) |-> Get(regret, I, a)]])
    /\ ev' = Ev("enter", Top)
    /\ UNCHANGED <<strategy, t, i, pc, ret, dumps, log>>
    /\ UNCHANGED cfg

Explores_at_floor(fn, reg, I, a) == fn = "cfr" \/ RLe(RInt(c), Get(reg, I, a))

Explores_above_floor_plus_one(fn, reg, I, a) == fn = "cfr" \/ RGt(Get(reg, I, a), RInt(c + 1))

(* the test of cfrp's first loop: agent.regret[I][a] > c *)
Explores(fn, reg, I, a) == fn = "cfr" \/ RGt(Get(reg, I, a), RInt(c))

(* the first loop, an action that is recursed into *)
TravExplore ==
    /\ pc = "run"
    /\ IsTrav(Top.fn) /\ Top.ph = "loop"
    /\ Top.k <= Len(legal_actions(Top.node))
    /\ LET n == Top.node
           I == info_set(n)
           a == legal_actions(n)[Top.k]
       IN  /\ Explores(Top.fn, regret, I, a)
           /\ regret' = IF Top.fn = "cfrp" THEN Touch(regret, I, {a}) ELSE regret
           /\ stack' = Append(SetTop([Top EXCEPT !.ph = "wait", !.a = a]),
                              Frame(Top.fn, apply_action(n, a)))
           /\ ev' = [Ev("explore", Top) EXCEPT !.a = a]
    /\ UNCHANGED <<strategy, sigma, t, i, pc, ret, dumps, log>>
    /\ UNCHANGED cfg

(* the first loop of cfrp, an action that is skipped: explored[a] = False *)
TravPrune ==
    /\ pc = "run"
    /\ Top.fn = "cfrp" /\ Top.ph = "loop"
    /\ Top.k <= Len(legal_actions(Top.node))
    /\ LET n == Top.node
           I == info_set(n)
           a == legal_actions(n)[Top.k]
       IN  /\ ~Explores(Top.fn, regret, I, a)
           /\ regret' = Touch(regret, I, {a})
           /\ stack' = SetTop([Top EXCEPT !.k = @ + 1, !.a = a,
                                 !.explored = Put(@, a, FALSE)])
           /\ ev' = [Ev("prune", Top) EXCEPT !.a = a]
    /\ UNCHANGED <<strategy, sigma, t, i, pc, ret, dumps, log>>
    /\ UNCHANGED cfg

(* the child has returned: voa[a] = ...; vo += agent.sigma[t][I][a] * voa[a] *)
TravCollect ==
    /\ pc = "run"
    /\ IsTrav(Top.fn) /\ Top.ph = "wait"
    /\ LET n == Top.node
           I == info_set(n)
           a == Top.a
           e == WeightRead(sigma, t, I, a)
       IN  IF WeightRaises(sigma, t, I, a)
           THEN Abort(Top) /\ sigma' = sigma
           ELSE /\ sigma' = SigmaPut(sigma, t, I, e)
                /\ stack' = SetTop([Top EXCEPT !.ph = "loop", !.k = @ + 1,
                                      !.voa = Put(@, a, ret),
                                      !.explored = Put(@, a, TRUE),
                                      !.w = Put(@, a, e.m[a]),
                                      !.vo = RAdd(@, RMul(e.m[a], ret))])
                /\ ev' = [Ev("collect", Top) EXCEPT !.a = a, !.val = e.m[a]]
                /\ UNCHANGED <<pc, i, ret>>
    /\ UNCHANGED <<strategy, regret, t, dumps, log>>
    /\ UNCHANGED cfg

(* the second loop: regret[I][a] += voa[a] - vo for the explored actions *)
RegretUpdate(reg, I, f) ==
    LET done == {a \in DOMAIN f.explored : f.explored[a]}
        r1 == Touch(reg, I, done)
    IN  [r1 EXCEPT ![I] = [a \in DOMAIN r1[I] |->
                             IF a \in done
                             THEN RAdd(r1[I][a], RSub(f.voa[a], f.vo))
                             ELSE r1[I][a]]]

(* after the first loop: update the regrets and return vo *)
TravFinish ==
    /\ pc = "run"
    /\ IsTrav(Top.fn) /\ Top.ph = "loop"
    /\ Top.k > Len(legal_actions(Top.node))
    /\ regret' = RegretUpdate(regret, info_set(Top.node), Top)
    /\ Pop(Top.vo)
    /\ ev' = [Ev("finish", Top) EXCEPT !.voa = Top.voa, !.vo = Top.vo, !.w = Top.w,
                 !.val = Top.vo, !.reg0 = Top.reg0,
                 !.stored = SigmaEntry(sigma, t, info_set(Top.node)).m]
    /\ UNCHANGED <<strategy, sigma, t, dumps, log>>
    /\ UNCHANGED cfg

(* else: calculate_strategy, sample one action, recurse into its child *)
TravSample ==
    /\ pc = "run"
    /\ IsTrav(Top.fn) /\ Top.ph = "enter"
    /\ ~is_terminal(Top.node)
    /\ player_i(Top.node) # i
    /\ LET n == Top.node
           I == info_set(n)
           cs == calculate_strategy(regret, sigma, I, n, t)
       IN  \E o \in SampleOutcomes(cs.sigma, n, t) :
              /\ regret' = cs.regret
              /\ sigma' = o.sigma
              /\ ev' = [Ev("sample", Top) EXCEPT !.a = o.a, !.repaired = o.repaired,
                           !.dist = o.dist, !.stored = SigmaEntry(cs.sigma, t, I).m]
              /\ IF apply_action(n, o.a) = "ILLEGAL"
                 THEN pc' = "error" /\ stack' = stack
                 ELSE /\ pc' = pc
                      /\ stack' = Append(SetTop([Top EXCEPT !.ph = "tail", !.a = o.a]),
                                         Frame(Top.fn, apply_action(n, o.a)))
    /\ UNCHANGED <<strategy, t, i, ret, dumps, log>>
    /\ UNCHANGED cfg

(* the recursive call in return position has returned *)
ReturnTail ==
    /\ pc = "run"
    /\ Top.ph = "tail"
    /\ Pop(ret)
    /\ ev' = [Ev("return", Top) EXCEPT !.val = ret]
    /\ UNCHANGED <<strategy, regret, sigma, t, dumps, log>>
    /\ UNCHANGED cfg

----------------------------------------------------------------------------
(* cfr and cfrp as functions of the tables, the node and the opponent      *)
(* actions drawn: pick[n] is the action np.random.choice returns at the    *)
(* node n.  The result is the returned value and the tables left behind;   *)
(* status is "error" when an exception ends the call and "undrawn" when    *)
(* pick[n] is not an action the draw at n can return; reads collects the   *)
(* <<node, action, regret[I][a]>> read by the tests of cfrp's first loop   *)
(* and pruned the <<node, action>> pairs it skipped.                       *)

RECURSIVE Traversal(_, _, _, _, _, _, _)
RECURSIVE FirstLoop(_, _, _, _, _, _)

(* for a in state.legal_actions, from the k-th action on; st carries the   *)
(* tables and the locals vo, voa, explored of the call in st.f             *)
FirstLoop(fn, st, ii, tt, pick, k) ==
    LET n == st.f.node
        I == info_set(n)
    IN  IF st.status # "ok" \/ k > Len(legal_actions(n)) THEN st
        ELSE LET a == legal_actions(n)[k]
                 read == IF fn = "cfrp" THEN {<<n, a, Get(st.regret, I, a)>>} ELSE {}
             IN  IF Explores(fn, st.regret, I, a)
                 THEN LET r1 == IF fn = "cfrp" THEN Touch(st.regret, I, {a}) ELSE st.regret
                          ch == Traversal(fn, r1, st.sigma, apply_action(n, a), ii, tt, pick)
                          e == WeightRead(ch.sigma, tt, I, a)
                          rd == st.reads \cup ch.reads \cup read
                      IN  IF ch.status # "ok"
                          THEN [st EXCEPT !.status = ch.status, !.regret = ch.regret,
                                          !.sigma = ch.sigma, !.reads = rd,
                                          !.pruned = @ \cup ch.pruned]
                          ELSE IF WeightRaises(ch.sigma, tt, I, a)
                          THEN [st EXCEPT !.status = "error", !.regret = ch.regret,
                                          !.sigma = ch.sigma, !.reads = rd,
                                          !.pruned = @ \cup ch.pruned]
                          ELSE FirstLoop(fn,
                                  [status |-> "ok",
                                   regret |-> ch.regret,
                                   sigma |-> SigmaPut(ch.sigma, tt, I, e),
                                   reads |-> rd,
                                   pruned |-> st.pruned \cup ch.pruned,
                                   f |-> [st.f EXCEPT !.voa = Put(@, a, ch.val),
                                                      !.explored = Put(@, a, TRUE),
                                                      !.w = Put(@, a, e.m[a]),
                                                      !.vo = RAdd(@, RMul(e.m[a], ch.val))]],
                                  ii, tt, pick, k + 1)
                 ELSE FirstLoop(fn,
                         [st EXCEPT !.regret = Touch(@, I, {a}),
                                    !.reads = @ \cup read,
                                    !.pruned = @ \cup {<<n, a>>},
                                    !.f = [@ EXCEPT !.explored = Put(@, a, FALSE)]],
                         ii, tt, pick, k + 1)

Traversal(fn, reg, sg, n, ii, tt, pick) ==
    IF is_terminal(n)
    THEN [status |-> "ok", val |-> payout(n)[ii + 1], regret |-> reg, sigma |-> sg,
          reads |-> {}, pruned |-> {}]
    ELSE LET I == info_set(n)
             cs == calculate_strategy(reg, sg, I, n, tt)
         IN  IF player_i(n) = ii
             THEN LET lp == FirstLoop(fn, [status |-> "ok", regret |-> cs.regret,
                                           sigma |-> cs.sigma, reads |-> {},
                                           pruned |-> {},
                                           f |-> Frame(fn, n)], ii, tt, pick, 1)
                  IN  [status |-> lp.status,
                       val |-> lp.f.vo,
                       regret |-> IF lp.status = "ok"
                                  THEN RegretUpdate(lp.regret, I, lp.f) ELSE lp.regret,
                       sigma |-> lp.sigma,
                       reads |-> lp.reads,
                       pruned |-> lp.pruned]
             ELSE LET drawn == {o \in SampleOutcomes(cs.sigma, n, tt) : o.a = pick[n]}
                  IN  IF drawn = {}
                      THEN [status |-> "undrawn", val |-> RZero, regret |-> cs.regret,
                            sigma |-> cs.sigma, reads |-> {}, pruned |-> {}]
                      ELSE LET o == CHOOSE x \in drawn : TRUE
                           IN  IF apply_action(n, o.a) = "ILLEGAL"
                               THEN [status |-> "error", val |-> RZero,
                                     regret |-> cs.regret, sigma |-> o.sigma,
                                     reads |-> {}, pruned |-> {}]
                               ELSE Traversal(fn, cs.regret, o.sigma,
                                              apply_action(n, o.a), ii, tt, pick)

----------------------------------------------------------------------------

Next ==
    \/ StartIteration
    \/ CallUpdateStrategy
    \/ CallTraversal
    \/ EndIteration
    \/ Finish
    \/ UsReturn
    \/ UsSample
    \/ UsBranch
    \/ TravTerminal
    \/ TravEnter
    \/ TravExplore
    \/ TravPrune
    \/ TravCollect
    \/ TravFinish
    \/ TravSample
    \/ ReturnTail

Spec == Init /\ [][Next]_vars

TypeOK ==
    /\ cfg \in Configs
    /\ pc \in {"loop", "player", "trav", "run", "error", "done"}
    /\ t \in 0..n_iterations
    /\ i \in 0..n_players

----------------------------------------------------------------------------
(* Properties.  ev describes the step that led to the current state:       *)
(* "sample" is a sampling step (stored: sigma[t][I] before the draw, dist: *)
(* the distribution drawn from), "finish" the return of a traverser node   *)
(* of cfr or cfrp (w: the weights read, stored: sigma[t][I] at the return).*)

EvLegal == LegalSet(ev.node)
EvInfoset == info_set(ev.node)

(* C1: every sigma[t][I] that a traversal samples from or weights child    *)
(* values with is a probability distribution over exactly the legal        *)
(* actions of the node: same key set, entries >= 0, sum 1.                 *)
C1_SigmaIsDistribution ==
    /\ ev.kind = "sample" => IsDist(ev.dist, EvLegal)
    /\ (ev.kind = "finish" /\ DOMAIN ev.w # {}) => IsDist(ev.stored, EvLegal)

(* C2: at the end of iteration t the discount step has run exactly when    *)
(* t < lcfr_threshold and t is a multiple of discount_interval.            *)
C2_DiscountSchedule ==
    ev.kind = "end" =>
        ((<<"discount", ev.t, 0>> \in Range(log))
            <=> (ev.t < lcfr_threshold /\ ev.t % discount_interval = 0))

(* the reference regret matcher over the legal actions L *)
RefSigma(reg, I, L) ==
    LET pos == [a \in L |-> RMax0(Get(reg, I, a))]
        S == RSum(pos, L)
    IN  [a \in L |-> IF RGt(S, RZero) THEN RDiv(pos[a], S) ELSE RNorm(1, Cardinality(L))]

(* C3: every call of calculate_strategy leaves in sigma[t+1][I], for each  *)
(* legal action, the value of the reference regret matcher computed from   *)
(* the regrets of the legal actions only.                                  *)
C3_RegretMatching ==
    [][ev'.kind \in {"enter", "sample"} =>
         LET I == info_set(ev'.node)
             L == LegalSet(ev'.node)
         IN  \A a \in L : SigmaEntry(sigma', t + 1, I).m[a] = RefSigma(regret, I, L)[a]]_vars

(* C4: at every sampling step, a stored sigma[t][I] whose key set is not   *)
(* the legal-action set is overwritten with the uniform distribution over  *)
(* the legal actions, and the sampled action is a legal action.            *)
C4_RepairOnMismatch ==
    ev.kind = "sample" =>
        /\ DOMAIN ev.stored # EvLegal =>
              /\ ev.repaired
              /\ SigmaEntry(sigma, ev.t, EvInfoset).m = Uniform(EvLegal)
        /\ ev.a \in EvLegal

(* C6: at every traverser node of cfr the sigma-weighted sum of the regret *)
(* increments voa[a] - vo is zero.                                         *)
C6_ZeroSumRegret ==
    (ev.kind = "finish" /\ ev.fn = "cfr") =>
        RSum([a \in EvLegal |-> RMul(ev.stored[a], RSub(ev.voa[a], ev.vo))], EvLegal) = RZero

(* every regret recorded at the call is at or below the floor c *)
AllPruned(r0) == DOMAIN r0 # {} /\ \A a \in DOMAIN r0 : RLe(r0[a], RInt(c))

RegretsAsAt(r0, I) == \A a \in DOMAIN r0 : Get(regret, I, a) = r0[a]

(* C5: cfrp at a traverser node whose legal actions all have regret <= c   *)
(* recurses into no child, returns 0 and leaves the node's regrets as they *)
(* were; cfr at a traverser node recurses into every legal action and      *)
(* returns the sigma-weighted sum of the child values.                     *)
C5_PruningConservative ==
    /\ \A j \in 1..Len(stack) :
          (stack[j].fn = "cfrp" /\ AllPruned(stack[j].reg0)) =>
              /\ j = Len(stack)
              /\ stack[j].ph = "loop"
              /\ stack[j].vo = RZero
              /\ DOMAIN stack[j].voa = {}
              /\ RegretsAsAt(stack[j].reg0, info_set(stack[j].node))
    /\ (ev.kind = "finish" /\ ev.fn = "cfrp" /\ AllPruned(ev.reg0)) =>
              /\ ev.val = RZero
              /\ DOMAIN ev.voa = {}
              /\ RegretsAsAt(ev.reg0, EvInfoset)
    /\ (ev.kind = "finish" /\ ev.fn = "cfr") =>
              /\ DOMAIN ev.voa = EvLegal
              /\ \A a \in EvLegal : ev.w[a] = ev.stored[a]
              /\ ev.val = RSum([a \in EvLegal |-> RMul(ev.stored[a], ev.voa[a])], EvLegal)

C5_Witness ==
    /\ ev.kind = "finish" /\ ev.fn = "cfrp"
    /\ AllPruned(ev.reg0)
    /\ Cardinality(EvLegal) = 2

(* C7: sigma holds at most two iteration indices, both in {t, t+1}: the    *)
(* start of iteration t seeds sigma[t+1] as a copy of sigma[t], the        *)
(* traversals of iteration t add no index, and the end of iteration t      *)
(* leaves sigma[t+1] alone.                                                *)
C7_SigmaTwoIndices ==
    /\ DOMAIN sigma \subseteq {t, t + 1}
    /\ Cardinality(DOMAIN sigma) <= 2
    /\ ev.kind = "start" => (DOMAIN sigma = {t, t + 1} /\ sigma[t + 1] = sigma[t])
    /\ pc \in {"player", "trav", "run"} => DOMAIN sigma = {t, t + 1}
    /\ ev.kind \in {"end", "final"} => DOMAIN sigma = {t + 1}

C7_Witness ==
    /\ ev.kind = "end" /\ t = 2
    /\ DOMAIN sigma = {3}
    /\ DOMAIN sigma[3] # {}

(* the iterations whose end-of-iteration step has run *)
Completed == IF pc \in {"loop", "done"} THEN t ELSE t - 1

C8_DumpDue(tt) == tt > update_threshold /\ tt % dump_iteration = 0

RECURSIVE C8_ExpectedNames(_)
C8_ExpectedNames(k) ==
    IF k = 0 THEN <<>>
    ELSE C8_ExpectedNames(k - 1) \o (IF C8_DumpDue(k) THEN <<<<"strategy", k>>>> ELSE <<>>)

DumpNames == [j \in 1..Len(dumps) |-> dumps[j].name]

IsTraversalEntry(e) == e[1] \in {"cfr", "cfrp"}

(* the guard of some step of the run holds *)
C8_CanStep ==
    \/ pc = "loop" /\ t <= n_iterations
    \/ pc = "player" /\ i <= n_players
    \/ pc = "trav" /\ i < n_players
    \/ /\ pc = "run" /\ stack # <<>>
       /\ \/ Top.ph \in {"enter", "wait", "tail"}
          \/ Top.ph = "loop" /\ IsTrav(Top.fn)

(* C8: a run processes the iterations 1..N in order and then ends; it      *)
(* stops early only on an error; a snapshot named after t is written at    *)
(* the end of iteration t exactly when t > update_threshold and t is a     *)
(* multiple of dump_iteration, one final snapshot is written after         *)
(* iteration N, and a snapshot holds the tables as they are after the      *)
(* write.                                                                  *)
C8_RunAndSnapshots ==
    /\ DumpNames = C8_ExpectedNames(Completed)
                      \o (IF pc = "done" THEN <<<<"strategy">>>> ELSE <<>>)
    /\ pc = "done" => t = n_iterations
    /\ pc \notin {"done", "error"} => C8_CanStep
    /\ \A j \in 1..Len(log) : log[j][2] = (IF j = 1 THEN 1 ELSE log[j - 1][2])
                              \/ (j > 1 /\ log[j][2] = log[j - 1][2] + 1)
    /\ \A tt \in 1..Completed :
          Cardinality({j \in 1..Len(log) : IsTraversalEntry(log[j]) /\ log[j][2] = tt}) = n_players
    /\ ev.kind = "final" => dumps[Len(dumps)].data = to_dict(strategy, regret, sigma)
    /\ (ev.kind = "end" /\ C8_DumpDue(t)) =>
          LET d == dumps[Len(dumps)].data
          IN  /\ d.strategy = strategy
              /\ d.regret = regret
              /\ DOMAIN d.sigma = {ToString(t), ToString(t + 1)}
              /\ d.sigma[ToString(t + 1)] = [I \in DOMAIN sigma[t + 1] |-> sigma[t + 1][I].m]

C8_Witness ==
    /\ pc = "done"
    /\ t = n_iterations
    /\ DumpNames = <<<<"strategy", 2>>, <<"strategy">>>>
    /\ DOMAIN dumps[2].data.regret # {}

IsCallEntry(e) == e[1] \in {"us", "cfr", "cfrp"}
CallLog == SelectSeq(log, IsCallEntry)

C9_UpdateDue(tt) == tt > update_threshold /\ tt % strategy_interval = 0

(* s is a prefix of the schedule from (tt, ii) on *)
RECURSIVE C9_Sched(_, _, _, _)
C9_Sched(s, tt, ii, usDone) ==
    IF s = <<>> THEN TRUE
    ELSE IF tt > n_iterations THEN FALSE
    ELSE IF ii = n_players THEN C9_Sched(s, tt + 1, 0, FALSE)
    ELSE IF C9_UpdateDue(tt) /\ ~usDone
         THEN Head(s) = <<"us", tt, ii>> /\ C9_Sched(Tail(s), tt, ii, TRUE)
         ELSE /\ Head(s)[2] = tt
              /\ Head(s)[3] = ii
              /\ Head(s)[1] = "cfr" \/ (Head(s)[1] = "cfrp" /\ tt > prune_threshold)
              /\ C9_Sched(Tail(s), tt, ii + 1, FALSE)

TraversalsDone == Cardinality({j \in 1..Len(log) : IsTraversalEntry(log[j])})

(* C9: for each t and each player i in the order 0..P-1, update_strategy   *)
(* is called exactly when t > update_threshold and t is a multiple of      *)
(* strategy_interval, then exactly one of cfr and cfrp, cfrp only when     *)
(* t > prune_threshold; every call starts at the root of a new game, and   *)
(* the calls of iteration t are over before iteration t + 1 starts.        *)
C9_Schedule ==
    /\ C9_Sched(CallLog, 1, 0, FALSE)
    /\ ev.kind = "call" =>
          /\ stack = <<Frame(ev.fn, Root)>>
          /\ CallLog[Len(CallLog)] = <<ev.fn, t, i>>
    /\ pc = "run" =>
          /\ CallLog[Len(CallLog)] = <<stack[1].fn, t, i>>
          /\ \A j \in 1..Len(stack) : stack[j].fn = stack[1].fn
    /\ ev.kind = "start" => (stack = <<>> /\ TraversalsDone = (t - 1) * n_players)
    /\ ev.kind = "end" => (stack = <<>> /\ TraversalsDone = t * n_players)

C9_Witness ==
    /\ pc = "done"
    /\ {<<"cfr", 1, 0>>, <<"us", 2, 0>>, <<"cfrp", 2, 0>>, <<"us", 2, 1>>, <<"cfr", 2, 1>>}
          \subseteq Range(log)

Infosets == {info_set(n) : n \in Decisions}

C10_Stops(n, p) == is_terminal(n) \/ ~is_active(n, p) \/ betting_round(n) > 0

TablesUnchanged == strategy' = strategy /\ regret' = regret /\ sigma' = sigma

(* C10: a step of update_strategy changes the strategy table only at a     *)
(* non-terminal round-0 node of the traverser i while i is active, where   *)
(* it adds exactly 1 to strategy[I][a] of the sampled action a and goes on *)
(* into the child of a only; at a node of another actor it calls the       *)
(* children of all legal actions in turn and changes no table; at a        *)
(* terminal node, a node where i is not active or a node past round 0 it   *)
(* returns with the three tables unchanged.                                *)
C10_UpdateStrategyFrame ==
    [][(pc = "run" /\ Top.fn = "us") =>
         LET n == Top.node
             I == info_set(n)
             La == legal_actions(n)
             kk == IF Top.ph = "enter" THEN 1 ELSE Top.k + 1
         IN  /\ (Top.ph = "enter" /\ C10_Stops(n, i)) =>
                    (stack' = Front(stack) /\ TablesUnchanged)
             /\ (Top.ph = "enter" /\ ~C10_Stops(n, i) /\ player_i(n) = i) =>
                    /\ ev'.kind = "sample"
                    /\ \A J \in Infosets, b \in Actions :
                          Get(strategy', J, b) =
                             IF J = I /\ b = ev'.a
                             THEN RAdd(Get(strategy, J, b), ROne)
                             ELSE Get(strategy, J, b)
                    /\ \/ pc' = "error"
                       \/ /\ Len(stack') = Len(stack) + 1
                          /\ stack'[Len(stack')] = Frame("us", apply_action(n, ev'.a))
                          /\ stack'[Len(stack)].ph = "tail"
             /\ ((Top.ph = "enter" /\ ~C10_Stops(n, i) /\ player_i(n) # i) \/ Top.ph = "wait") =>
                    /\ TablesUnchanged
                    /\ IF kk <= Len(La)
                       THEN /\ Len(stack') = Len(stack) + 1
                            /\ stack'[Len(stack')] = Frame("us", apply_action(n, La[kk]))
                       ELSE stack' = Front(stack)
             /\ Top.ph = "tail" => (stack' = Front(stack) /\ TablesUnchanged)]_vars

C10_Witness ==
    /\ ev.kind = "sample" /\ ev.fn = "us" /\ ev.node = "rcr"
    /\ pc = "run"
    /\ Len(stack) = 4
    /\ Get(strategy, "D", ev.a) = ROne

----------------------------------------------------------------------------
(* cfrp against cfr.                                                       *)

(* the nodes of the subtree under n *)
RECURSIVE Below(_)
Below(n) ==
    IF is_terminal(n) THEN {n}
    ELSE {n} \cup UNION {Below(apply_action(n, a)) : a \in LegalSet(n)}

(* the decision nodes under n where a traversal for player ii draws an action *)
OpponentNodes(n, ii) == {m \in Below(n) \ Terminals : player_i(m) # ii}

(* the sequences of drawn opponent actions, one action per node drawn at *)
Picks(n, ii) == [OpponentNodes(n, ii) -> Actions]

(* train is about to call a traversal for player i of iteration t *)
C11_AtCall == pc \in {"player", "trav"} /\ i < n_players /\ stack = <<>>

(* every regret the traversal read at a traverser node is above c *)
C11_AllAbove(reads) == \A r \in reads : RGt(r[3], RInt(c))

(* from the node n, the current tables and the draws pick: when every      *)
(* regret cfrp reads at a traverser node is above c, cfrp and cfr end the  *)
(* same way, return the same value and leave the same regret and sigma     *)
(* tables, and cfrp has skipped no action                                  *)
C11_Same(n, ii, pick) ==
    LET p == Traversal("cfrp", regret, sigma, n, ii, t, pick)
        q == Traversal("cfr", regret, sigma, n, ii, t, pick)
    IN  C11_AllAbove(p.reads) =>
            /\ p.pruned = {}
            /\ p.status = q.status
            /\ p.status = "ok" =>
                  /\ p.val = q.val
                  /\ p.regret = q.regret
                  /\ p.sigma = q.sigma

(* the sigma-weighted sum of the child values collected so far *)
C11_WeightedSum(w, voa) == RSum([a \in DOMAIN voa |-> RMul(w[a], voa[a])], DOMAIN voa)

(* C11: started from the same node, tables and drawn opponent actions,     *)
(* cfrp returns the value cfr returns and leaves the regret and sigma      *)
(* tables as cfr leaves them whenever every regret it tests at a traverser *)
(* node is above c; an action whose regret is at or below c is not         *)
(* recursed into, adds nothing to vo and keeps its regret through the      *)
(* call; only cfrp at a traverser node skips actions, and a non-traverser  *)
(* node of either traversal recurses into the one child of the drawn       *)
(* action.                                                                 *)
C11_CfrpIsCfrUnlessPruned ==
    /\ C11_AtCall =>
          \A n \in Decisions : \A pick \in Picks(n, i) : C11_Same(n, i, pick)
    /\ ev.kind = "prune" =>
          /\ ev.fn = "cfrp" /\ player_i(ev.node) = ev.i
          /\ pc = "run" /\ Top.node = ev.node /\ Top.ph = "loop"
          /\ RLe(Top.reg0[ev.a], RInt(c))
          /\ ev.a \notin DOMAIN Top.voa
          /\ Top.explored[ev.a] = FALSE
          /\ Top.vo = C11_WeightedSum(Top.w, Top.voa)
          /\ Get(regret, EvInfoset, ev.a) = Top.reg0[ev.a]
    /\ ev.kind = "explore" =>
          (ev.fn = "cfrp" => RGt(Get(regret, EvInfoset, ev.a), RInt(c)))
    /\ (ev.kind = "finish" /\ ev.fn = "cfrp") =>
          /\ ev.val = C11_WeightedSum(ev.w, ev.voa)
          /\ \A a \in EvLegal :
                IF RLe(ev.reg0[a], RInt(c))
                THEN a \notin DOMAIN ev.voa /\ Get(regret, EvInfoset, a) = ev.reg0[a]
                ELSE a \in DOMAIN ev.voa
    /\ (ev.kind = "finish" /\ ev.fn = "cfr") => DOMAIN ev.voa = EvLegal
    /\ (ev.kind = "sample" /\ IsTrav(ev.fn)) =>
          /\ player_i(ev.node) # ev.i
          /\ pc = "run" =>
                /\ Top.node = apply_action(ev.node, ev.a)
                /\ Top.ph = "enter" /\ Top.fn = ev.fn
                /\ stack[Len(stack) - 1].node = ev.node
                /\ stack[Len(stack) - 1].ph = "tail"

(* a traversal for player i is about to be called with regrets below and   *)
(* above c in the table: some draws make cfrp prune nothing and return,    *)
(* having changed the regrets, and other draws make it prune               *)
C11_Witness ==
    /\ C11_AtCall /\ t > prune_threshold
    /\ \E pick \in Picks(Root, i) :
          LET p == Traversal("cfrp", regret, sigma, Root, i, t, pick)
          IN  /\ p.status = "ok" /\ p.regret # regret
              /\ C11_AllAbove(p.reads)
              /\ \E r \in p.reads : r[3] # RZero
    /\ \E pick \in Picks(Root, i) :
          LET p == Traversal("cfrp", regret, sigma, Root, i, t, pick)
          IN  p.status = "ok" /\ p.pruned # {}

====
